---- MODULE Spec2Model ----
(***************************************************************************)
(* Model of src/index.ts: a script that validates its environment          *)
(* (initWeb3), then runs one operation against pre-deployed contracts      *)
(* through a JSON-RPC node.  Every awaited RPC call is modelled as an      *)
(* issue step of the script followed by a response step of the node, so    *)
(* that another user of the same account can act in between.               *)
(***************************************************************************)
EXTENDS Integers, Sequences, FiniteSets, TLC

VARIABLES
  env,        \* process.env: the six configuration values
  selected,   \* the operation main() invokes after initWeb3
  pc,         \* position of the script
  account,    \* the Account built by initWeb3
  rpcLog,     \* every RPC call issued so far, in order, with its result
  chainCount, \* the node's transaction count for the account
  extSent,    \* transactions another process has sent from the account
  extSince,   \* of those, the ones sent since the last nonce response
  logs,       \* console.log output
  error       \* message of the error that ended the run ("" if none)

vars == <<env, selected, pc, account, rpcLog, chainCount, extSent, extSince, logs, error>>

----------------------------------------------------------------------------
\* Bounds of the model

\* Longest allowance, in decimal digits, the node may report.
MaxAllowanceDigits == 20

\* Transactions the other process may send from the same account.
MaxExternalTx == 2

----------------------------------------------------------------------------
\* Environment values

Missing == [kind |-> "missing"]
Empty == [kind |-> "empty"]
Url == [kind |-> "url"]
Garbage == [kind |-> "garbage"]
Addr(id, form) == [kind |-> "addr", id |-> id, form |-> form]
Key(body, pad) == [kind |-> "key", body |-> body, pad |-> pad]
NoAddr == [kind |-> "none"]

\* The textual forms an address can be written in; "badsum" is mixed case
\* with a wrong checksum.
AddrForms == {"lower", "upper", "checksum", "badsum"}

RpcEndpoints == {Missing, Empty, Url}
ContractAddresses == {Missing, Empty, Addr("C", "checksum")}
MakerAddresses ==
  {Missing, Empty, Garbage, Addr("B", "checksum")} \cup {Addr("A", f) : f \in AddrForms}
PrivateKeys ==
  {Missing, Empty, Key("", TRUE), Key("kA", FALSE), Key("kA", TRUE),
   Key("kB", FALSE), Key("zz", FALSE)}

EnvNames ==
  {"RPC_ENDPOINT", "ORDER_BOOK_ADDRESS", "MARGIN_ADDRESS",
   "PROTOCOL_VAULT_ADDRESS", "MAKER_ADDRESS", "PRIVATE_KEY"}

Environments ==
  [RPC_ENDPOINT : RpcEndpoints, ORDER_BOOK_ADDRESS : ContractAddresses,
   MARGIN_ADDRESS : ContractAddresses, PROTOCOL_VAULT_ADDRESS : ContractAddresses,
   MAKER_ADDRESS : MakerAddresses, PRIVATE_KEY : PrivateKeys]

\* !process.env.X : undefined and "" are falsy, every other string is truthy.
\* (FalsyMissingOnly: the faulty check that lets "" through.)
FalsyMissingOnly(v) == v.kind = "missing"
Falsy(v) == v.kind \in {"missing", "empty"}

\* isAddress from web3-validator: all-lowercase, all-uppercase or correctly
\* checksummed 20-byte hex.
isAddress(v) == v.kind = "addr" /\ v.form \in {"lower", "upper", "checksum"}

\* String.prototype.trim on the private key.
Trim(k) == IF k.kind = "key" THEN [k EXCEPT !.pad = FALSE] ELSE k

\* web3.eth.accounts.wallet.add(key): rejects a string that is no private key,
\* otherwise derives the account, whose address is in checksummed form.
ValidKey(k) == k.kind = "key" /\ ~k.pad /\ k.body \in {"kA", "kB"}
PrivateKeyToAddress(k) == Addr(IF k.body = "kA" THEN "A" ELSE "B", "checksum")

\* addedAccount[0].address != process.env.MAKER_ADDRESS : string inequality.
\* (AddressesDifferNever: the faulty variant that omits the check.)
AddressesDifferNever(derived, maker) == FALSE
AddressesDiffer(derived, maker) == derived # maker

----------------------------------------------------------------------------
\* Numbers and strings

\* A bigint is held as its canonical decimal digits, most significant first.
RECURSIVE Digits(_)
Digits(n) == IF n < 10 THEN <<n>> ELSE Digits(n \div 10) \o <<n % 10>>

\* toString of a number: the UTF-16 code units of its decimal digits.
toString(digs) == [i \in 1..Len(digs) |-> 48 + digs[i]]

\* The number a decimal string denotes (the node parsing a nonce).
RECURSIVE ParseNum(_)
ParseNum(s) ==
  IF s = <<>> THEN 0 ELSE 10 * ParseNum(SubSeq(s, 1, Len(s) - 1)) + (s[Len(s)] - 48)

Zeros(n) == [i \in 1..n |-> 0]

\* Decimals of the "ether" unit.
EtherDecimals == 18

\* web3.utils.toWei(n, "ether") for a whole one-digit n.
ToWei(n) == <<n>> \o Zeros(EtherDecimals)

\* The JavaScript < on two strings: lexicographic on code units.
\* (StrLessOrEqual: the faulty variant <=.)
RECURSIVE StrLessOrEqual(_, _)
StrLessOrEqual(a, b) ==
  IF a = <<>> THEN TRUE
  ELSE IF b = <<>> THEN FALSE
  ELSE IF a[1] # b[1] THEN a[1] < b[1]
  ELSE StrLessOrEqual(Tail(a), Tail(b))

RECURSIVE StrLess(_, _)
StrLess(a, b) ==
  IF a = <<>> THEN b # <<>>
  ELSE IF b = <<>> THEN FALSE
  ELSE IF a[1] # b[1] THEN a[1] < b[1]
  ELSE StrLess(Tail(a), Tail(b))

\* !x on a number returned by the node.
\* (TruthyAlways: the faulty variant that omits the check.)
TruthyAlways(v) == TRUE
Truthy(v) == v # 0

----------------------------------------------------------------------------
\* The RPC layer

Operations ==
  {"addMakerOrder", "removeMakerOrder", "depositMarginWETH",
   "depositMarginOtherToken", "withdrawMargin"}

\* Gas estimates the node may answer with.
GasValues == {0, 21000}

\* Transaction counts the account may start with.
InitialCounts == {0, 9}

\* Allowances the node may report: 0, and numbers of up to MaxAllowanceDigits
\* digits made of a leading digit and a repeated digit.
AllowanceValues ==
  {<<0>>} \cup
  {<<lead>> \o [i \in 1..(len - 1) |-> fill] :
     lead \in {1, 2, 9}, fill \in {0, 9}, len \in 1..MaxAllowanceDigits}

Pending == [st |-> "pending"]
Failure == [st |-> "error"]
Ok(v) == [st |-> "ok", val |-> v]

Last == rpcLog[Len(rpcLog)]
InFlight == rpcLog # <<>> /\ Last.result.st = "pending"
Returned == rpcLog # <<>> /\ Last.result.st # "pending"
Rejected == Last.result.st = "error"
Value == Last.result.val

\* web3.utils.toWei(n / 10, "ether") for a one-digit n.
ToWeiTenths(n) == <<n>> \o Zeros(EtherDecimals - 1)

\* web3.eth.abi.encodeParameters: one 32-byte word per value.  An address
\* word holds the 20 bytes (the letter case of the text is gone), a uint256
\* word the number its decimal string denotes, a bool word 1 or 0.
AddressWord(a) == <<"address", a.id>>
Uint256Word(str) == [i \in 1..Len(str) |-> str[i] - 48]
BoolWord(b) == IF b THEN <<1>> ELSE <<0>>
encodeParameters(maker, amount, price, isBuy) ==
  <<AddressWord(maker), Uint256Word(amount), Uint256Word(price), BoolWord(isBuy)>>

\* The order addMakerOrder places.
makerTransactionData ==
  [amount |-> toString(ToWeiTenths(1)),
   isBuy |-> TRUE,
   makerAddress |-> account.address,
   price |-> toString(ToWei(2))]

\* The blob addMakerOrder passes to the contract: maker, amount, price, isBuy.
\* (parametersSwapped: the faulty variant with price and amount exchanged.)
parametersSwapped ==
  encodeParameters(makerTransactionData.makerAddress, makerTransactionData.price,
                   makerTransactionData.amount, makerTransactionData.isBuy)
parameters ==
  encodeParameters(makerTransactionData.makerAddress, makerTransactionData.amount,
                   makerTransactionData.price, makerTransactionData.isBuy)

makerOrderId == 123

\* The token depositMarginOtherToken deposits: "0x" and thirty zeros.
tokenAddress == [kind |-> "token"]

\* The arguments each call site passes to the contract method or the node.
CallArgs(site) ==
  CASE site \in {107, 119} -> <<parameters>>
    [] site \in {161, 167} -> <<makerOrderId>>
    [] site \in {180, 188, 259, 265} -> <<toString(ToWei(1))>>
    [] site = 208 -> <<account.address, env.PROTOCOL_VAULT_ADDRESS>>
    [] site = 218 -> <<env.PROTOCOL_VAULT_ADDRESS, toString(ToWei(1))>>
    [] site \in {233, 242} -> <<tokenAddress, toString(ToWei(1))>>
    [] OTHER -> <<account.address>>

\* The script issues an RPC call and suspends on it (await).
Issue(site, kind, method, from, nonce, type) ==
  rpcLog' = Append(rpcLog,
    [site |-> site, kind |-> kind, method |-> method, args |-> CallArgs(site),
     from |-> from, nonce |-> nonce, type |-> type, result |-> Pending,
     chainAt |-> chainCount, ext |-> extSince])

Resolve(r) == rpcLog' = [rpcLog EXCEPT ![Len(rpcLog)].result = r]

\* throw: the rejection propagates through main() and ends the run.
\* (ThrowAndRestart: the faulty variant that catches the error and runs the
\* operation again.)
ThrowAndRestart(msg) == pc' = "main" /\ error' = msg
Throw(msg) == pc' = "failed" /\ error' = msg

\* (await web3.eth.getTransactionCount(account.address)).toString()
\* (TxNonceCached: the faulty variant that reuses the first count fetched;
\* TxNonceAtSubmission: the variant in which the node allocates the nonce
\* atomically with the submission.)
TxNonceCached(count) ==
  LET first == CHOOSE i \in 1..Len(rpcLog) :
                 /\ rpcLog[i].kind = "getTransactionCount"
                 /\ \A j \in 1..(i - 1) : rpcLog[j].kind # "getTransactionCount"
  IN toString(Digits(rpcLog[first].result.val))
TxNonceAtSubmission(count) == toString(Digits(chainCount))
TxNonce(count) == toString(Digits(count))

\* from: account.address
\* (FromVault: the faulty variant that sends from the vault address.)
FromVault == env.PROTOCOL_VAULT_ADDRESS
From == account.address

NoNonce == <<>>

\* The node answers an estimateGas.
NodeEstimateGas ==
  /\ InFlight /\ Last.kind = "estimateGas"
  /\ \E g \in GasValues : Resolve(Ok(g))
  /\ UNCHANGED <<env, selected, pc, account, chainCount, extSent, extSince, logs, error>>

\* The node answers a getTransactionCount with the account's current count.
NodeGetTransactionCount ==
  /\ InFlight /\ Last.kind = "getTransactionCount"
  /\ Resolve(Ok(chainCount))
  /\ extSince' = 0
  /\ UNCHANGED <<env, selected, pc, account, chainCount, extSent, logs, error>>

\* The node answers the allowance call.
NodeCall ==
  /\ InFlight /\ Last.kind = "call"
  /\ \E a \in AllowanceValues : Resolve(Ok(a))
  /\ UNCHANGED <<env, selected, pc, account, chainCount, extSent, extSince, logs, error>>

\* The node mines a submitted transaction whose nonce is the account's next
\* one, and answers with its receipt.
NodeSend ==
  /\ InFlight /\ Last.kind = "send"
  /\ ParseNum(Last.nonce) = chainCount
  /\ Last.from = account.address
  /\ Resolve(Ok([transactionHash |-> <<Last.method, chainCount>>]))
  /\ chainCount' = chainCount + 1
  /\ UNCHANGED <<env, selected, pc, account, extSent, extSince, logs, error>>

\* The call fails: network error, revert, nonce too low, unknown sender.
NodeRejects ==
  /\ InFlight
  /\ Resolve(Failure)
  /\ UNCHANGED <<env, selected, pc, account, chainCount, extSent, extSince, logs, error>>

\* Another process sends a transaction from the same account.  Only its
\* steps while the script is between initWeb3 and its end are modelled: the
\* earlier ones are a larger initial count, the later ones are never read.
ExternalSend ==
  /\ pc \notin {"start", "failed", "exited"}
  /\ extSent < MaxExternalTx
  /\ chainCount' = chainCount + 1
  /\ extSent' = extSent + 1
  /\ extSince' = extSince + 1
  /\ UNCHANGED <<env, selected, pc, account, rpcLog, logs, error>>

----------------------------------------------------------------------------
\* initWeb3

initWeb3 ==
  /\ pc = "start"
  /\ IF Falsy(env.RPC_ENDPOINT)
       THEN Throw("Provide a valid RPC_ENDPOINT") /\ UNCHANGED <<account, logs>>
     ELSE IF \/ Falsy(env.ORDER_BOOK_ADDRESS)
             \/ Falsy(env.MARGIN_ADDRESS)
             \/ Falsy(env.PROTOCOL_VAULT_ADDRESS)
       THEN Throw("Please Provide Contract Address") /\ UNCHANGED <<account, logs>>
     ELSE IF Falsy(env.MAKER_ADDRESS) \/ ~isAddress(env.MAKER_ADDRESS)
       THEN Throw("Please Provide Valid Maker Address ") /\ UNCHANGED <<account, logs>>
     ELSE IF Falsy(env.PRIVATE_KEY)
       THEN Throw("Please Provide valid Private Key") /\ UNCHANGED <<account, logs>>
     ELSE IF ~ValidKey(Trim(env.PRIVATE_KEY))
       THEN Throw("InvalidPrivateKeyError") /\ UNCHANGED <<account, logs>>
     ELSE IF AddressesDiffer(PrivateKeyToAddress(Trim(env.PRIVATE_KEY)), env.MAKER_ADDRESS)
       THEN Throw("Invalid MNEMONIC and Maker Address differ")
            /\ UNCHANGED <<account, logs>>
     ELSE /\ logs' = Append(logs,
                 <<"Added Account", PrivateKeyToAddress(Trim(env.PRIVATE_KEY))>>)
          /\ account' = [address |-> PrivateKeyToAddress(Trim(env.PRIVATE_KEY)),
                         mnemonic |-> Trim(env.PRIVATE_KEY).body]
          /\ pc' = "main"
          /\ UNCHANGED error
  /\ UNCHANGED <<env, selected, rpcLog, chainCount, extSent, extSince>>

----------------------------------------------------------------------------
\* Steps shared by the operations

\* const gas = await contract.methods.m(...).estimateGas(...)
EstimateGasStep(at, to, site, method, from) ==
  /\ pc = at
  /\ Issue(site, "estimateGas", method, from, NoNonce, "none")
  /\ pc' = to
  /\ UNCHANGED <<env, selected, account, chainCount, extSent, extSince, logs, error>>

\* if (!gas) throw new Error(msg); then the nonce argument of send is fetched.
NonceAfterGasStep(at, to, site, msg) ==
  /\ pc = at /\ Returned
  /\ IF Rejected
       THEN Throw("RpcError") /\ UNCHANGED rpcLog
     ELSE IF ~Truthy(Value)
       THEN Throw(msg) /\ UNCHANGED rpcLog
     ELSE /\ Issue(site, "getTransactionCount", "none", NoAddr, NoNonce, "none")
          /\ pc' = to
          /\ UNCHANGED error
  /\ UNCHANGED <<env, selected, account, chainCount, extSent, extSince, logs>>

\* await contract.methods.m(...).send({from, nonce, type})
\* (SendStepNoAwait: the faulty variant that does not await the nonce query
\* before it submits.)
SendStepNoAwait(at, to, site, method, type) ==
  /\ pc = at
  /\ Issue(site, "send", method, From, TxNonce(chainCount), type)
  /\ pc' = to
  /\ UNCHANGED <<env, selected, account, chainCount, extSent, extSince, logs, error>>

SendStep(at, to, site, method, type) ==
  /\ pc = at /\ Returned
  /\ IF Rejected
       THEN Throw("RpcError") /\ UNCHANGED rpcLog
     ELSE /\ Issue(site, "send", method, From, TxNonce(Value), type)
          /\ pc' = to
          /\ UNCHANGED error
  /\ UNCHANGED <<env, selected, account, chainCount, extSent, extSince, logs>>

\* The send returned: the operation logs (or not) and returns to main.
\* (ReturnStepWithTimeout: the faulty variant that gives up on a submission
\* still unanswered.)
ReturnStepWithTimeout(at, line) ==
  /\ pc = at
  /\ IF ~Returned \/ Rejected
       THEN Throw("RpcError") /\ UNCHANGED logs
     ELSE /\ logs' = logs \o line
          /\ pc' = "returned"
          /\ UNCHANGED error
  /\ UNCHANGED <<env, selected, account, rpcLog, chainCount, extSent, extSince>>

ReturnStep(at, line) ==
  /\ pc = at /\ Returned
  /\ IF Rejected
       THEN Throw("RpcError") /\ UNCHANGED logs
     ELSE /\ logs' = logs \o line
          /\ pc' = "returned"
          /\ UNCHANGED error
  /\ UNCHANGED <<env, selected, account, rpcLog, chainCount, extSent, extSince>>

----------------------------------------------------------------------------
\* addMakerOrder

addMakerOrder_estimateGas ==
  /\ selected = "addMakerOrder"
  /\ EstimateGasStep("main", "amo_gas", 107, "addMakerOrder", From)

addMakerOrder_getTransactionCount ==
  NonceAfterGasStep("amo_gas", "amo_nonce", 121, " Estimate Gas Failed ")

addMakerOrder_send ==
  SendStep("amo_nonce", "amo_send", 119, "addMakerOrder", "none")

addMakerOrder_log ==
  ReturnStep("amo_send", <<<<"Transaction Mined with Hash", Value.transactionHash>>>>)

addMakerOrder ==
  \/ addMakerOrder_estimateGas
  \/ addMakerOrder_getTransactionCount
  \/ addMakerOrder_send
  \/ addMakerOrder_log

----------------------------------------------------------------------------
\* removeMakerOrder

removeMakerOrder_estimateGas ==
  /\ selected = "removeMakerOrder"
  /\ EstimateGasStep("main", "rmo_gas", 161, "removeOrder", NoAddr)

removeMakerOrder_getTransactionCount ==
  NonceAfterGasStep("rmo_gas", "rmo_nonce", 169, "Cannot Estimate Gas")

removeMakerOrder_send ==
  SendStep("rmo_nonce", "rmo_send", 167, "removeOrder", "0x02")

removeMakerOrder_return ==
  ReturnStep("rmo_send", <<>>)

removeMakerOrder ==
  \/ removeMakerOrder_estimateGas
  \/ removeMakerOrder_getTransactionCount
  \/ removeMakerOrder_send
  \/ removeMakerOrder_return

----------------------------------------------------------------------------
\* depositMarginWETH

depositMarginWETH_estimateGas ==
  /\ selected = "depositMarginWETH"
  /\ EstimateGasStep("main", "dmw_gas", 180, "receiveDepositWETH", From)

depositMarginWETH_getTransactionCount ==
  NonceAfterGasStep("dmw_gas", "dmw_nonce", 193, "Failed to Estimate Gas")

depositMarginWETH_send ==
  SendStep("dmw_nonce", "dmw_send", 188, "receiveDepositWETH", "0x02")

depositMarginWETH_log ==
  ReturnStep("dmw_send", <<<<"receipt", Value.transactionHash>>>>)

depositMarginWETH ==
  \/ depositMarginWETH_estimateGas
  \/ depositMarginWETH_getTransactionCount
  \/ depositMarginWETH_send
  \/ depositMarginWETH_log

----------------------------------------------------------------------------
\* depositMarginOtherToken

\* const approval = await erc20.methods.allowance(account.address, vault).call()
depositMarginOtherToken_allowance ==
  /\ selected = "depositMarginOtherToken"
  /\ pc = "main"
  /\ Issue(208, "call", "allowance", NoAddr, NoNonce, "none")
  /\ pc' = "dmot_allowance"
  /\ UNCHANGED <<env, selected, account, chainCount, extSent, extSince, logs, error>>

\* approval.toString() < web3.utils.toWei(1, "ether").toString()
NeedsApproval(approval) == StrLess(toString(approval), toString(ToWei(1)))

\* The comparison: either the nonce of the approval is fetched, or the
\* approval is skipped and the gas of the deposit is estimated.
depositMarginOtherToken_compare ==
  /\ pc = "dmot_allowance" /\ Returned
  /\ IF Rejected
       THEN Throw("RpcError") /\ UNCHANGED rpcLog
     ELSE IF NeedsApproval(Value)
       THEN /\ Issue(228, "getTransactionCount", "none", NoAddr, NoNonce, "none")
            /\ pc' = "dmot_approve_nonce"
            /\ UNCHANGED error
     ELSE /\ Issue(233, "estimateGas", "receiveDepositInOtherToken", NoAddr, NoNonce, "none")
          /\ pc' = "dmot_gas"
          /\ UNCHANGED error
  /\ UNCHANGED <<env, selected, account, chainCount, extSent, extSince, logs>>

depositMarginOtherToken_approve ==
  SendStep("dmot_approve_nonce", "dmot_approve", 218, "approve", "0x02")

\* The approval returned: the gas of the deposit is estimated.
depositMarginOtherToken_estimateGas ==
  /\ pc = "dmot_approve" /\ Returned
  /\ IF Rejected
       THEN Throw("RpcError") /\ UNCHANGED rpcLog
     ELSE /\ Issue(233, "estimateGas", "receiveDepositInOtherToken", NoAddr, NoNonce, "none")
          /\ pc' = "dmot_gas"
          /\ UNCHANGED error
  /\ UNCHANGED <<env, selected, account, chainCount, extSent, extSince, logs>>

depositMarginOtherToken_getTransactionCount ==
  NonceAfterGasStep("dmot_gas", "dmot_nonce", 250, "Failed to Estimate Gas")

depositMarginOtherToken_send ==
  SendStep("dmot_nonce", "dmot_send", 242, "receiveDepositInOtherToken", "0x02")

depositMarginOtherToken_return ==
  ReturnStep("dmot_send", <<>>)

depositMarginOtherToken ==
  \/ depositMarginOtherToken_allowance
  \/ depositMarginOtherToken_compare
  \/ depositMarginOtherToken_approve
  \/ depositMarginOtherToken_estimateGas
  \/ depositMarginOtherToken_getTransactionCount
  \/ depositMarginOtherToken_send
  \/ depositMarginOtherToken_return

----------------------------------------------------------------------------
\* withdrawMargin

\* (withdrawMargin_skipEstimate: the faulty variant that submits without
\* estimating gas.)
withdrawMargin_skipEstimate ==
  /\ selected = "withdrawMargin"
  /\ pc = "main"
  /\ Issue(268, "getTransactionCount", "none", NoAddr, NoNonce, "none")
  /\ pc' = "wm_nonce"
  /\ UNCHANGED <<env, selected, account, chainCount, extSent, extSince, logs, error>>

withdrawMargin_estimateGas ==
  /\ selected = "withdrawMargin"
  /\ EstimateGasStep("main", "wm_gas", 259, "withdraw", NoAddr)

withdrawMargin_getTransactionCount ==
  NonceAfterGasStep("wm_gas", "wm_nonce", 268, "Failed to Estimate Gas")

withdrawMargin_send ==
  SendStep("wm_nonce", "wm_send", 265, "withdraw", "0x02")

withdrawMargin_return ==
  ReturnStep("wm_send", <<>>)

withdrawMargin ==
  \/ withdrawMargin_estimateGas
  \/ withdrawMargin_getTransactionCount
  \/ withdrawMargin_send
  \/ withdrawMargin_return

----------------------------------------------------------------------------
\* main

\* main().then(() => console.log("Finished Execution "))
\* (mainFinally: the faulty variant that logs on rejection too, as .finally
\* would.)
mainFinally ==
  /\ pc \in {"returned", "failed"}
  /\ \A k \in 1..Len(logs) : logs[k][1] # "Finished Execution "
  /\ logs' = Append(logs, <<"Finished Execution ">>)
  /\ pc' = IF pc = "returned" THEN "exited" ELSE pc
  /\ UNCHANGED <<env, selected, account, rpcLog, chainCount, extSent, extSince, error>>

mainThen ==
  /\ pc = "returned"
  /\ logs' = Append(logs, <<"Finished Execution ">>)
  /\ pc' = "exited"
  /\ UNCHANGED <<env, selected, account, rpcLog, chainCount, extSent, extSince, error>>

Init ==
  /\ env \in Environments
  /\ selected \in Operations
  /\ pc = "start"
  /\ account = [address |-> NoAddr, mnemonic |-> ""]
  /\ rpcLog = <<>>
  /\ chainCount \in InitialCounts
  /\ extSent = 0
  /\ extSince = 0
  /\ logs = <<>>
  /\ error = ""

Next ==
  \/ initWeb3
  \/ addMakerOrder
  \/ removeMakerOrder
  \/ depositMarginWETH
  \/ depositMarginOtherToken
  \/ withdrawMargin
  \/ mainThen
  \/ NodeEstimateGas
  \/ NodeGetTransactionCount
  \/ NodeCall
  \/ NodeSend
  \/ NodeRejects
  \/ ExternalSend

Spec == Init /\ [][Next]_vars

\* The steps of the script, and the answers of the node.
Script ==
  \/ initWeb3
  \/ addMakerOrder
  \/ removeMakerOrder
  \/ depositMarginWETH
  \/ depositMarginOtherToken
  \/ withdrawMargin
  \/ mainThen

NodeAnswer ==
  \/ NodeEstimateGas
  \/ NodeGetTransactionCount
  \/ NodeCall
  \/ NodeSend
  \/ NodeRejects

\* The runs in which the event loop resumes the script whenever the promise
\* it awaits has settled, and the node answers every call.
FairSpec == Spec /\ WF_vars(Script) /\ WF_vars(NodeAnswer)

\* main() as written: of the five calls in its body only addMakerOrder is
\* not commented out.
MainInit == Init /\ selected = "addMakerOrder"

MainNext ==
  \/ initWeb3
  \/ addMakerOrder
  \/ mainThen
  \/ NodeEstimateGas
  \/ NodeGetTransactionCount
  \/ NodeSend
  \/ NodeRejects
  \/ ExternalSend

MainSpec == MainInit /\ [][MainNext]_vars

----------------------------------------------------------------------------
\* Vocabulary of the properties

Calls == 1..Len(rpcLog)
Sends == {i \in Calls : rpcLog[i].kind = "send"}
GasEstimates == {i \in Calls : rpcLog[i].kind = "estimateGas"}
Answered(i) == rpcLog[i].result.st = "ok"
GasFalsy(i) == rpcLog[i].kind = "estimateGas" /\ Answered(i) /\ rpcLog[i].result.val = 0

GasLabels == {"amo_gas", "rmo_gas", "dmw_gas", "dmot_gas", "wm_gas"}
GasErrors == {" Estimate Gas Failed ", "Cannot Estimate Gas", "Failed to Estimate Gas"}
Completed == pc \in {"returned", "exited"}

\* a < b as numbers, on canonical decimal digits.
NumLess(a, b) ==
  \/ Len(a) < Len(b)
  \/ /\ Len(a) = Len(b)
     /\ \E i \in 1..Len(a) : a[i] < b[i] /\ \A j \in 1..(i - 1) : a[j] = b[j]

\* 1 * 10^18, the amount depositMarginOtherToken deposits.
DepositAmount == ToWei(1)

\* The allowance the node reported, once depositMarginOtherToken has it.
AllowanceKnown ==
  /\ selected = "depositMarginOtherToken"
  /\ rpcLog # <<>>
  /\ rpcLog[1].kind = "call"
  /\ Answered(1)
Allowance == rpcLog[1].result.val
Approvals == {i \in Sends : rpcLog[i].method = "approve"}
Deposits == {i \in Sends : rpcLog[i].method = "receiveDepositInOtherToken"}

----------------------------------------------------------------------------
\* C1 (as stated): whenever a gas estimate came back falsy, the operation has
\* submitted no transaction at all, an approval included.
C1_NoSubmissionAtAll ==
  (\E i \in Calls : GasFalsy(i)) => Sends = {}

\* C1 (amended): a falsy gas estimate is the last RPC call of the run: the
\* operation aborts on it with its estimate-gas error and submits nothing
\* afterwards; the only submission that can precede it is the approval of
\* depositMarginOtherToken.
C1_GasFailureShortCircuits ==
  \A i \in Calls : GasFalsy(i) =>
    /\ i = Len(rpcLog)
    /\ pc \in GasLabels \cup {"failed"}
    /\ pc = "failed" => error \in GasErrors
    /\ \A j \in Sends :
         /\ j < i
         /\ selected = "depositMarginOtherToken"
         /\ rpcLog[j].method = "approve"

C1_Witness ==
  /\ pc = "failed"
  /\ error = "Failed to Estimate Gas"
  /\ GasFalsy(Len(rpcLog))
  /\ Approvals # {}

----------------------------------------------------------------------------
\* C2 (as stated): once depositMarginOtherToken estimates the gas of the
\* deposit with an allowance numerically below 10^18, exactly one approval
\* has been submitted, before that estimate.
C2_ApprovalWhenNumericallyBelow ==
  (AllowanceKnown /\ NumLess(Allowance, DepositAmount)) =>
    \A g \in GasEstimates :
      /\ Cardinality(Approvals) = 1
      /\ \A a \in Approvals : a < g

----------------------------------------------------------------------------
\* C3: with an allowance numerically at or above 10^18 no approval is ever
\* submitted: the call after the allowance query is the gas estimate of the
\* deposit, and a completed run has submitted the deposit and nothing else.
C3_NoApprovalWhenSufficient ==
  (AllowanceKnown /\ ~NumLess(Allowance, DepositAmount)) =>
    /\ Approvals = {}
    /\ \A i \in Calls : rpcLog[i].site \notin {228, 218}
    /\ Len(rpcLog) >= 2 => rpcLog[2].kind = "estimateGas"
    /\ Cardinality(Sends) <= 1
    /\ Completed => (Cardinality(Deposits) = 1 /\ Sends = Deposits)

C3_Witness ==
  /\ AllowanceKnown
  /\ Allowance = DepositAmount
  /\ pc = "exited"
  /\ Cardinality(Sends) = 1

----------------------------------------------------------------------------
\* C4: every submission directly follows a nonce query that was issued after
\* all earlier calls had returned, and carries the count that query answered
\* with, which is the chain's count at that answer.
C4_NonceFresh ==
  \A i \in Sends :
    /\ i > 1
    /\ rpcLog[i - 1].kind = "getTransactionCount"
    /\ \A j \in 1..(i - 1) : Answered(j)
    /\ rpcLog[i].nonce = toString(Digits(rpcLog[i - 1].result.val))
    /\ ParseNum(rpcLog[i].nonce) = rpcLog[i].chainAt - rpcLog[i].ext

C4_Witness ==
  /\ pc = "exited"
  /\ \E i, j \in Sends : i < j /\ ParseNum(rpcLog[j].nonce) > ParseNum(rpcLog[i].nonce)

----------------------------------------------------------------------------
\* C5: with a required environment value missing or empty, or a MAKER_ADDRESS
\* that is no well-formed address, the run never gets past initWeb3: it ends
\* with a configuration error, no account, and no RPC call ever issued.
ConfigErrors ==
  {"Provide a valid RPC_ENDPOINT", "Please Provide Contract Address",
   "Please Provide Valid Maker Address ", "Please Provide valid Private Key"}

ConfigIncomplete ==
  \/ \E n \in EnvNames : env[n].kind \in {"missing", "empty"}
  \/ env.MAKER_ADDRESS.kind # "addr"
  \/ env.MAKER_ADDRESS.form = "badsum"

C5_ConfigErrorBeforeAnyCall ==
  ConfigIncomplete =>
    /\ rpcLog = <<>>
    /\ pc \in {"start", "failed"}
    /\ pc = "failed" => error \in ConfigErrors
    /\ account.address = NoAddr
    /\ logs = <<>>

C5_Witness ==
  /\ pc = "failed"
  /\ env.RPC_ENDPOINT = Url
  /\ env.ORDER_BOOK_ADDRESS.kind = "addr"
  /\ env.MARGIN_ADDRESS = Empty
  /\ error = "Please Provide Contract Address"
  /\ rpcLog = <<>>

----------------------------------------------------------------------------
\* C6: with a complete configuration whose private key derives an address
\* other than the text of MAKER_ADDRESS, initWeb3 throws the mismatch error:
\* no account is built, no operation starts, no RPC call is issued.
KeyMismatch ==
  /\ ~ConfigIncomplete
  /\ ValidKey(Trim(env.PRIVATE_KEY))
  /\ PrivateKeyToAddress(Trim(env.PRIVATE_KEY)) # env.MAKER_ADDRESS

C6_MismatchIsFatal ==
  KeyMismatch =>
    /\ rpcLog = <<>>
    /\ pc \in {"start", "failed"}
    /\ pc = "failed" => error = "Invalid MNEMONIC and Maker Address differ"
    /\ account.address = NoAddr
    /\ logs = <<>>

C6_Witness ==
  /\ pc = "failed"
  /\ env.PRIVATE_KEY = Key("kB", FALSE)
  /\ env.MAKER_ADDRESS = Addr("A", "checksum")
  /\ error = "Invalid MNEMONIC and Maker Address differ"

----------------------------------------------------------------------------
\* C7 (as stated): a completed operation has estimated gas once and submitted
\* exactly one transaction.
C7_ExactlyOneSubmission ==
  Completed => (Cardinality(GasEstimates) = 1 /\ Cardinality(Sends) = 1)

\* The contract method each operation submits.
OperationMethod ==
  [o \in Operations |->
     CASE o = "addMakerOrder" -> "addMakerOrder"
       [] o = "removeMakerOrder" -> "removeOrder"
       [] o = "depositMarginWETH" -> "receiveDepositWETH"
       [] o = "depositMarginOtherToken" -> "receiveDepositInOtherToken"
       [] o = "withdrawMargin" -> "withdraw"]

\* C7 (amended): a completed operation has estimated gas once and submitted
\* exactly one transaction of its own method, as its last call; the only
\* other submission is the single approval depositMarginOtherToken makes
\* first when the allowance string compares below the amount string, so that
\* operation submits one or two transactions.
C7_OneSubmissionPlusApproval ==
  Completed =>
    /\ Cardinality(GasEstimates) = 1
    /\ Cardinality({i \in Sends : rpcLog[i].method = OperationMethod[selected]}) = 1
    /\ rpcLog[Len(rpcLog)].method = OperationMethod[selected]
    /\ Sends \ Approvals = {Len(rpcLog)}
    /\ Cardinality(Approvals) <= 1
    /\ Approvals # {} <=>
         /\ selected = "depositMarginOtherToken"
         /\ StrLess(toString(Allowance), toString(DepositAmount))
    /\ \A a \in Approvals : \A g \in GasEstimates : a < g

C7_Witness ==
  /\ pc = "exited"
  /\ Cardinality(Approvals) = 1
  /\ Cardinality(Deposits) = 1
  /\ Cardinality(Sends) = 2

----------------------------------------------------------------------------
\* C8: every submission, an approval included, is sent from the address of
\* the one account initWeb3 built, which is MAKER_ADDRESS; the account is
\* absent before initWeb3 returns and never differs from it afterwards.
C8_SingleSender ==
  /\ \A i \in Sends :
       /\ rpcLog[i].from = account.address
       /\ rpcLog[i].from = env.MAKER_ADDRESS
  /\ account.address \in {NoAddr, env.MAKER_ADDRESS}
  /\ account.address = NoAddr <=>
       (pc = "start" \/ (pc = "failed" /\ rpcLog = <<>> /\ logs = <<>>))

C8_Witness ==
  /\ Cardinality(Approvals) = 1
  /\ Cardinality(Deposits) = 1
  /\ \A i \in Sends : Answered(i) /\ rpcLog[i].from = env.MAKER_ADDRESS
  /\ env.MAKER_ADDRESS = Addr("B", "checksum")

----------------------------------------------------------------------------
\* C9: nothing is retried.  A call that failed (rejected, or a falsy gas
\* estimate) is the last call of the run, no call site appears twice, a run
\* with a failed call never completes, the failed state carries the error,
\* and once failed the run issues nothing more and stays failed.
FailedCall(i) == rpcLog[i].result.st = "error" \/ GasFalsy(i)

C9_NoRetry ==
  /\ [](/\ \A i \in Calls : FailedCall(i) => i = Len(rpcLog)
        /\ \A i, j \in Calls : rpcLog[i].site = rpcLog[j].site => i = j
        /\ (\E i \in Calls : FailedCall(i)) => ~Completed
        /\ pc = "failed" <=> error # ""
        /\ pc = "failed" => ~InFlight)
  /\ [][pc = "failed" => (pc' = "failed" /\ rpcLog' = rpcLog /\ logs' = logs)]_vars
  /\ [][(\E i \in Calls : FailedCall(i)) => (rpcLog' = rpcLog /\ pc' \in {pc, "failed"})]_vars

C9_Witness ==
  /\ pc = "failed"
  /\ error = "RpcError"
  /\ Len(rpcLog) = 6
  /\ rpcLog[6].kind = "send"
  /\ rpcLog[6].result.st = "error"

----------------------------------------------------------------------------
\* C10: the nonce is not allocated atomically with the submission.  A
\* submission issued after the other process sent from the account since the
\* nonce answer carries a nonce below the chain's count at that moment, by
\* exactly the number of those transactions, and the node never mines it;
\* without such interference the nonce is the chain's count.
C10_NonceCollision ==
  \A i \in Sends :
    /\ ParseNum(rpcLog[i].nonce) = rpcLog[i].chainAt - rpcLog[i].ext
    /\ rpcLog[i].ext > 0 =>
         /\ ParseNum(rpcLog[i].nonce) < rpcLog[i].chainAt
         /\ ~Answered(i)

C10_Witness ==
  /\ pc = "failed"
  /\ selected = "withdrawMargin"
  /\ \E i \in Sends :
       /\ rpcLog[i].ext > 0
       /\ ParseNum(rpcLog[i].nonce) < rpcLog[i].chainAt
       /\ rpcLog[i].result.st = "error"

----------------------------------------------------------------------------
\* C11: in a run of main, RPC calls are issued only once initWeb3 has built
\* the account; they are the calls of addMakerOrder and of no other
\* operation, each call site at most once; and a call is issued only when
\* every earlier call has returned, so at most one is in flight.
AddMakerOrderSites == {107, 121, 119}

C11_OneOperationOneCallAtATime ==
  /\ rpcLog # <<>> =>
       /\ pc # "start"
       /\ account.address # NoAddr
       /\ logs # <<>> /\ logs[1][1] = "Added Account"
  /\ \A i \in Calls : rpcLog[i].site \in AddMakerOrderSites
  /\ \A i, j \in Calls : rpcLog[i].site = rpcLog[j].site => i = j
  /\ \A i \in Calls : i < Len(rpcLog) => rpcLog[i].result.st # "pending"
  /\ Cardinality({i \in Calls : rpcLog[i].result.st = "pending"}) <= 1

C11_Witness ==
  /\ pc = "exited"
  /\ selected = "addMakerOrder"
  /\ Len(rpcLog) = 3
  /\ \A i \in Calls : Answered(i)

----------------------------------------------------------------------------
\* C12: addMakerOrder issues, in this order and nothing else, the gas
\* estimate of addMakerOrder(blob), the nonce query and the submission of
\* addMakerOrder(blob), where blob encodes (maker address, 0.1 * 10^18,
\* 2 * 10^18, true); the nonce is queried only after a truthy estimate, the
\* submission carries the nonce answered, and the hash is logged only once
\* the submission returned a receipt, and is that receipt's hash.
ExpectedBlob ==
  << <<"address", env.MAKER_ADDRESS.id>>,
     <<1>> \o [i \in 1..17 |-> 0],
     <<2>> \o [i \in 1..18 |-> 0],
     <<1>> >>

HashLines == {k \in 1..Len(logs) : logs[k][1] = "Transaction Mined with Hash"}

C12_AddMakerOrderSteps ==
  selected = "addMakerOrder" =>
    /\ Len(rpcLog) <= 3
    /\ \A i \in Calls :
         /\ rpcLog[i].site = <<107, 121, 119>>[i]
         /\ rpcLog[i].kind = <<"estimateGas", "getTransactionCount", "send">>[i]
    /\ \A i \in Calls \cap {1, 3} :
         /\ rpcLog[i].method = "addMakerOrder"
         /\ rpcLog[i].args = <<ExpectedBlob>>
    /\ Len(rpcLog) >= 2 => (Answered(1) /\ rpcLog[1].result.val # 0)
    /\ Len(rpcLog) = 3 =>
         (Answered(2) /\ rpcLog[3].nonce = toString(Digits(rpcLog[2].result.val)))
    /\ \A k \in HashLines :
         /\ Len(rpcLog) = 3 /\ Answered(3)
         /\ logs[k][2] = rpcLog[3].result.val.transactionHash
    /\ Cardinality(HashLines) <= 1
    /\ Completed <=> HashLines # {}

C12_Witness ==
  /\ selected = "addMakerOrder"
  /\ pc = "returned"
  /\ HashLines = {2}
  /\ rpcLog[3].args = <<ExpectedBlob>>
  /\ env.MAKER_ADDRESS = Addr("A", "checksum")

----------------------------------------------------------------------------
\* C13: "Finished Execution " is logged, once, exactly when the run has
\* exited; the run returns from main only with the account built, every call
\* answered, the operation's submission last with its receipt, and no error;
\* with an error or a failed call it is never logged; and a run that has
\* returned from main does log it.
FinishedLines == {k \in 1..Len(logs) : logs[k][1] = "Finished Execution "}

C13_FinishedOnlyOnSuccess ==
  /\ [](/\ FinishedLines # {} <=> pc = "exited"
        /\ Cardinality(FinishedLines) <= 1
        /\ FinishedLines \subseteq {Len(logs)}
        /\ Completed =>
             /\ error = ""
             /\ account.address # NoAddr
             /\ rpcLog # <<>>
             /\ \A i \in Calls : Answered(i)
             /\ Last.kind = "send"
             /\ Last.method = OperationMethod[selected]
        /\ (error # "" \/ pc = "failed" \/ \E i \in Calls : FailedCall(i)) =>
             FinishedLines = {})
  /\ (pc = "returned") ~> (FinishedLines # {})

C13_Witness ==
  /\ pc = "exited"
  /\ selected = "depositMarginWETH"
  /\ FinishedLines = {3}
  /\ Answered(Len(rpcLog))

----------------------------------------------------------------------------
\* C14: there is no timeout.  While a call stays unanswered the script does
\* nothing: its position, its log output, its error and its calls stay as
\* they are.  A run issues at most six calls, and when every call is
\* answered every run ends, failed or exited.
C14_BlocksUntilAnswered ==
  /\ [][(InFlight /\ InFlight' /\ Len(rpcLog') = Len(rpcLog)) =>
          (pc' = pc /\ logs' = logs /\ error' = error /\ rpcLog' = rpcLog)]_vars
  /\ [](InFlight => ~ENABLED Script)
  /\ [](Len(rpcLog) <= 6)
  /\ <>(pc \in {"failed", "exited"} /\ ~InFlight)

C14_Witness ==
  /\ InFlight
  /\ Len(rpcLog) = 6
  /\ extSent = MaxExternalTx
  /\ Last.kind = "send"

----------------------------------------------------------------------------
\* C15: when depositMarginOtherToken submits an approval, the allowance query
\* is its first call and is never repeated; the nonce query of the deposit
\* is issued after the approval has returned its receipt; and when no other
\* process sent from the account, the nonce of the deposit is greater than
\* the nonce of the approval.
AllowanceQueries == {i \in Calls : rpcLog[i].kind = "call"}

C15_DepositNonceAfterApproval ==
  (selected = "depositMarginOtherToken" /\ Approvals # {}) =>
    /\ AllowanceQueries = {1}
    /\ \A a \in Approvals : \A i \in Calls :
         (i > a /\ i < Len(rpcLog)) => rpcLog[i].method # "approve"
    /\ \A a \in Approvals : \A d \in Deposits :
         /\ a < d - 1
         /\ Answered(a)
         /\ rpcLog[d - 1].kind = "getTransactionCount"
         /\ rpcLog[d - 1].site = 250
         /\ extSent = 0 => ParseNum(rpcLog[d].nonce) > ParseNum(rpcLog[a].nonce)

C15_Witness ==
  /\ selected = "depositMarginOtherToken"
  /\ pc = "exited"
  /\ extSent = 0
  /\ chainCount = 11
  /\ \E a \in Approvals : \E d \in Deposits :
       ParseNum(rpcLog[a].nonce) = 9 /\ ParseNum(rpcLog[d].nonce) = 10

----------------------------------------------------------------------------
\* C16 (as stated): with all six values present, a MAKER_ADDRESS that passes
\* the format check in any accepted form, and a private key that derives the
\* same address, initWeb3 does not throw: it builds the account.
SameAccountConfigured ==
  /\ \A n \in EnvNames : env[n].kind \notin {"missing", "empty"}
  /\ env.MAKER_ADDRESS.kind = "addr"
  /\ env.MAKER_ADDRESS.form \in {"lower", "upper", "checksum"}
  /\ ValidKey(Trim(env.PRIVATE_KEY))
  /\ PrivateKeyToAddress(Trim(env.PRIVATE_KEY)).id = env.MAKER_ADDRESS.id

C16_InitSucceedsInAnyForm ==
  (SameAccountConfigured /\ pc # "start") =>
    /\ account.address # NoAddr
    /\ error # "Invalid MNEMONIC and Maker Address differ"

====
